---- MODULE Spec2Model ----
(***************************************************************************)
(* A model of the replace-drop crate (src/src/lib.rs) and of the programs  *)
(* that use it (the unit test of lib.rs, the doc examples, and             *)
(* src/examples/calling_drop.rs).                                          *)
(*                                                                         *)
(* The caller constructs values of the types implementing ReplaceDropImpl, *)
(* wraps them in ReplaceDrop guards, reads and writes them through the     *)
(* guard, takes them back with into_inner, clones guards, and destroys     *)
(* guards and bare values.  The model records every call of a cleanup      *)
(* routine (Drop::drop or ReplaceDropImpl::drop), the lines printed and    *)
(* the integer cell the test's MyType writes to.                           *)
(*                                                                         *)
(* ReplaceDrop<T> is generic: a run instantiates it with one type T, drawn *)
(* in Init from the implementers of ReplaceDropImpl.  into_inner is two    *)
(* steps (take, forget); every other operation is one step.                *)
(***************************************************************************)
EXTENDS Integers, Sequences, FiniteSets

\* ------------------------------------------------------------------ bounds
MaxVals == 2      \* values constructed or cloned in one run of Spec, the
                  \* ones constructed into a field of another included
MaxTestVals == 3  \* values constructed in one run of TestSpec
MaxGuards == 2    \* ReplaceDrop guards constructed in one run
MaxRuns == 2      \* destructor runs a caller forces in place in one run

\* ------------------------------------------------------- program constants
CellInit == 0     \* let mut t = 0;
CellDrop == 1     \* Drop for MyType: *self.0 = 1
CellFin == 5      \* ReplaceDropImpl for MyType: *self.0 = 5
DocData == 3      \* let data = MyData {data: 3};

\* What the caller writes through deref_mut: the data of the doc examples,
\* or the data Make constructs with.
DataVals == {0, DocData}

\* The types T: ReplaceDropImpl the guard is instantiated with.
\*   Unit     ()                      lib.rs 20-23
\*   MyData   struct { data: i32 }    lib.rs 29-34 (doc example of ReplaceDrop)
\*   MyData2  struct { data: i32 }    lib.rs 94-99 (doc example of
\*            replace_drop; also named MyData there)
\*   MyType   struct (&mut u32)       lib.rs 120-131 (test)
\*   Inner    struct                  examples/calling_drop.rs 5-23
\*   Outer    struct (Inner)          examples/calling_drop.rs 6-41
Types == {"Unit", "MyData", "MyData2", "MyType", "Inner", "Outer"}

\* impl Drop for T exists
HasDrop(t) == t \in {"MyType", "Inner", "Outer"}

\* The fields of T that have drop glue of their own.
Fields(t) == IF t = "Outer" THEN <<"Inner">> ELSE <<>>

\* T: Clone, so that #[derive(Clone)] gives ReplaceDrop<T>: Clone.  Of the
\* implementers only () is Clone.
IsClone(t) == t = "Unit"

\* T carries data the caller reads and writes through the guard.
HasData(t) == t \in {"MyData", "MyData2"}

\* One call of a cleanup routine: rt = "drop" is Drop::drop of ty, rt = "fin"
\* is ReplaceDropImpl::drop of ty; v is the caller's value the routine runs
\* on (for a field, the value that contains it), d the data it sees, g the
\* guard whose destructor the call happens under (0: no guard).
Call(rt, t, v, d, g) == [rt |-> rt, ty |-> t, v |-> v, d |-> d, g |-> g]

RECURSIVE Concat(_)
Concat(ss) == IF ss = <<>> THEN <<>> ELSE Head(ss) \o Concat(Tail(ss))

\* A faulty DropGlue: Drop::drop of T alone, the fields left alone.
DropGlueShallow(t, v, d, g) ==
    IF HasDrop(t) THEN <<Call("drop", t, v, d, g)>> ELSE <<>>

\* The drop glue of a T: Drop::drop of T if it is implemented, then the drop
\* glue of each field in declaration order (std drop, scope exit,
\* ptr::drop_in_place).
RECURSIVE DropGlue(_, _, _, _)
DropGlue(t, v, d, g) ==
    (IF HasDrop(t) THEN <<Call("drop", t, v, d, g)>> ELSE <<>>)
    \o Concat([i \in 1..Len(Fields(t)) |-> DropGlue(Fields(t)[i], v, 0, g)])

\* <T as ReplaceDropImpl>::drop, by its body.
RECURSIVE Finalize(_, _, _, _)
Finalize(t, v, d, g) ==
    IF t = "Outer"
    THEN <<Call("fin", "Outer", v, d, g)>>        \* println!("Outer 2!")
         \o DropGlue("Inner", v, 0, g)            \* drop_in_place(&mut self.0)
         \o Finalize("Inner", v, 0, g)            \* ReplaceDropImpl::drop(&mut self.0)
         \o DropGlue("Outer", v, d, g)            \* drop_in_place(self)
    ELSE <<Call("fin", t, v, d, g)>>

\* A faulty Text: the finalizer of () prints a line like the others.
TextUnitPrints(c) ==
    CASE c.ty = "Outer" /\ c.rt = "fin" -> "Outer 2!"
      [] c.ty = "Outer" /\ c.rt = "drop" -> "Outer!"
      [] c.ty = "Inner" /\ c.rt = "fin" -> "Inner 2!"
      [] c.ty = "Inner" /\ c.rt = "drop" -> "Inner!"
      [] c.ty = "MyData" /\ c.rt = "fin" -> "Called drop with"
      [] c.ty = "MyData2" /\ c.rt = "fin" -> "Called replace_drop with"
      [] c.ty = "Unit" /\ c.rt = "fin" -> "Unit 2!"
      [] OTHER -> ""

\* What a call prints ("" : nothing).
Text(c) ==
    CASE c.ty = "Outer" /\ c.rt = "fin" -> "Outer 2!"
      [] c.ty = "Outer" /\ c.rt = "drop" -> "Outer!"
      [] c.ty = "Inner" /\ c.rt = "fin" -> "Inner 2!"
      [] c.ty = "Inner" /\ c.rt = "drop" -> "Inner!"
      [] c.ty = "MyData" /\ c.rt = "fin" -> "Called drop with"
      [] c.ty = "MyData2" /\ c.rt = "fin" -> "Called replace_drop with"
      [] OTHER -> ""

Line(c) == [text |-> Text(c), arg |-> c.d]

RECURSIVE Printed(_)
Printed(cs) ==
    IF cs = <<>> THEN <<>>
    ELSE (IF Text(Head(cs)) = "" THEN <<>> ELSE <<Line(Head(cs))>>)
         \o Printed(Tail(cs))

\* The integer cell after the calls cs ran, in order, from content c.
RECURSIVE CellAfter(_, _)
CellAfter(c, cs) ==
    IF cs = <<>> THEN c
    ELSE CellAfter(
            IF Head(cs).ty = "MyType"
            THEN (IF Head(cs).rt = "drop" THEN CellDrop ELSE CellFin)
            ELSE c,
            Tail(cs))

\* ------------------------------------------------------------------- state
VARIABLES
    T,       \* the type the run instantiates ReplaceDrop<T> with
    ty,      \* ty[v]: the type of value v ("none": not constructed)
    data,    \* data[v]: the data of value v
    loc,     \* loc[v]: "unborn", "bare" (owned by the caller), "slot" (in a
             \*   ManuallyDrop the caller owns), "guard" (in a guard's slot),
             \*   "dropped" (destroyed by drop glue), "finalized" (destroyed
             \*   by a guard's destructor)
    galive,  \* galive[g]: "unborn", "live" (destructor armed), "dropped"
             \*   (destructor ran), "forgotten" (mem::forget)
    held,    \* held[g]: the value guard g was built around (0: none); the
             \*   bits stay in the slot after ManuallyDrop::take
    moved,   \* moved[g]: ManuallyDrop::take moved the value out of the slot
    via,     \* via[g]: the operation that built guard g
    cell,    \* the u32 the test's MyType values borrow
    calls,   \* every cleanup routine call so far, in order
    out,     \* the lines printed so far
    seen,    \* what the step just taken read through deref (0: it read nothing)
    writes   \* writes[v]: how often the field of value v was assigned to

vars == <<T, ty, data, loc, galive, held, moved, via, cell, calls, out, seen,
          writes>>

\* The state before the caller has constructed anything, with room for nv
\* values and ng guards.
Fresh(nv, ng) ==
    /\ ty = [v \in 1..nv |-> "none"]
    /\ data = [v \in 1..nv |-> 0]
    /\ loc = [v \in 1..nv |-> "unborn"]
    /\ galive = [g \in 1..ng |-> "unborn"]
    /\ held = [g \in 1..ng |-> 0]
    /\ moved = [g \in 1..ng |-> FALSE]
    /\ via = [g \in 1..ng |-> "none"]
    /\ cell = CellInit
    /\ calls = <<>>
    /\ out = <<>>
    /\ seen = 0
    /\ writes = [v \in 1..nv |-> 0]

Init ==
    /\ T \in Types
    /\ Fresh(MaxVals, MaxGuards)

ValIds == DOMAIN loc
GuardIds == DOMAIN galive

Born == {v \in ValIds : loc[v] # "unborn"}
Built == {g \in GuardIds : galive[g] # "unborn"}
Owned(v) == loc[v] \in {"bare", "slot", "guard"}

\* The guards whose into_inner is between its two statements.
Taking == {g \in GuardIds : galive[g] = "live" /\ moved[g]}

\* A faulty Idle: other steps of the caller, a destructor run among them,
\* may come between the two statements of into_inner.
IdleAlways == TRUE

\* The program is single threaded: an operation starts when none is running.
Idle == Taking = {}

\* The next value and the next guard (identities are given in order).
NextVal == Cardinality(Born) + 1
NextGuard == Cardinality(Built) + 1

RECURSIVE SumTo(_, _)
SumTo(f, n) == IF n = 0 THEN 0 ELSE f[n] + SumTo(f, n - 1)

\* How many writes to the field of an Outer the run has made; each
\* constructs an Inner (g.0 = Inner).
FieldWrites == SumTo(writes, Len(writes))

\* The run can construct one more value: the values the caller made or
\* cloned and the ones it constructed into a field are fewer than the run
\* has room for.
Room == Cardinality(Born) + FieldWrites < Cardinality(ValIds)

\* Running the calls cs: they are recorded, print, and write the cell.
Run(cs) ==
    /\ calls' = calls \o cs
    /\ out' = out \o Printed(cs)
    /\ cell' = CellAfter(cell, cs)

\* The caller can still use value v.  A MyType borrows the cell mutably:
\* once a later MyType has borrowed the cell, an earlier one left in a
\* ManuallyDrop (which has no drop glue) can not be used again.
Usable(v) ==
    ty[v] = "MyType" => \A w \in ValIds : w > v => loc[w] = "unborn"

\* The caller constructs a value of type t, a MyData with data d.  A
\* MyType borrows the cell mutably, so none is made while another is bare or
\* in a guard (a guard has a destructor, which uses the borrow).
Make(t, d) ==
    /\ Idle
    /\ Room
    /\ t = T
    /\ t = "MyType"
       => \A w \in ValIds : ~(ty[w] = "MyType" /\ loc[w] \in {"bare", "guard"})
    /\ ty' = [ty EXCEPT ![NextVal] = t]
    /\ data' = [data EXCEPT ![NextVal] = IF HasData(t) THEN d ELSE 0]
    /\ loc' = [loc EXCEPT ![NextVal] = "bare"]
    /\ seen' = 0
    /\ UNCHANGED <<T, writes, galive, held, moved, via, cell, calls, out>>

\* ManuallyDrop::new(v): the caller puts a value in a slot of its own.
ManuallyDropNew(v) ==
    /\ Idle
    /\ loc[v] = "bare"
    /\ loc' = [loc EXCEPT ![v] = "slot"]
    /\ seen' = 0
    /\ UNCHANGED <<T, writes, ty, data, galive, held, moved, via,
                   cell, calls, out>>

\* The guard NextGuard is built around value v by operation how.
Wrap(v, how) ==
    /\ NextGuard \in GuardIds
    /\ galive' = [galive EXCEPT ![NextGuard] = "live"]
    /\ held' = [held EXCEPT ![NextGuard] = v]
    /\ via' = [via EXCEPT ![NextGuard] = how]
    /\ loc' = [loc EXCEPT ![v] = "guard"]

\* ReplaceDrop::new(val)
New(v) ==
    /\ Idle
    /\ loc[v] = "bare"
    /\ Wrap(v, "new")
    /\ seen' = 0
    /\ UNCHANGED <<T, writes, ty, data, moved, cell, calls, out>>

\* A faulty NewFromManuallyDrop: the guard is built around a bitwise copy
\* of the slot, and the caller's ManuallyDrop still holds the value.
NewFromManuallyDropKeepsSlot(v) ==
    /\ Idle
    /\ loc[v] = "slot"
    /\ Usable(v)
    /\ NextGuard \in GuardIds
    /\ galive' = [galive EXCEPT ![NextGuard] = "live"]
    /\ held' = [held EXCEPT ![NextGuard] = v]
    /\ via' = [via EXCEPT ![NextGuard] = "new_from_manually_drop"]
    /\ seen' = 0
    /\ UNCHANGED <<T, writes, ty, data, loc, moved, cell, calls, out>>

\* ReplaceDrop::new_from_manually_drop(val)
NewFromManuallyDrop(v) ==
    /\ Idle
    /\ loc[v] = "slot"
    /\ Usable(v)
    /\ Wrap(v, "new_from_manually_drop")
    /\ seen' = 0
    /\ UNCHANGED <<T, writes, ty, data, moved, cell, calls, out>>

\* A faulty IntoInnerTake: into_inner is a second path to the finalizer,
\* which it runs on the value before taking it out of the slot.
IntoInnerTakeFinalizes(g) ==
    /\ Idle
    /\ galive[g] = "live"
    /\ calls' = calls \o Finalize(ty[held[g]], held[g], data[held[g]], g)
    /\ out' = out \o Printed(Finalize(ty[held[g]], held[g], data[held[g]], g))
    /\ cell' = CellAfter(cell, Finalize(ty[held[g]], held[g], data[held[g]], g))
    /\ moved' = [moved EXCEPT ![g] = TRUE]
    /\ loc' = [loc EXCEPT ![held[g]] = "bare"]
    /\ seen' = 0
    /\ UNCHANGED <<T, writes, ty, data, galive, held, via>>

\* into_inner, first statement: ManuallyDrop::take(&mut self.0) moves the
\* value to the local val; self is still armed.
IntoInnerTake(g) ==
    /\ Idle
    /\ galive[g] = "live"
    /\ moved' = [moved EXCEPT ![g] = TRUE]
    /\ loc' = [loc EXCEPT ![held[g]] = "bare"]
    /\ seen' = 0
    /\ UNCHANGED <<T, writes, ty, data, galive, held, via, cell, calls, out>>

\* A faulty IntoInnerForget: self is not forgotten, so its destructor runs
\* as into_inner returns val.
IntoInnerNoForget(g) ==
    /\ g \in Taking
    /\ calls' = calls \o Finalize(ty[held[g]], held[g], data[held[g]], g)
    /\ out' = out \o Printed(Finalize(ty[held[g]], held[g], data[held[g]], g))
    /\ cell' = CellAfter(cell, Finalize(ty[held[g]], held[g], data[held[g]], g))
    /\ galive' = [galive EXCEPT ![g] = "dropped"]
    /\ seen' = 0
    /\ UNCHANGED <<T, writes, ty, data, loc, held, moved, via>>

\* into_inner, the rest: mem::forget(self); val is returned.
IntoInnerForget(g) ==
    /\ g \in Taking
    /\ galive' = [galive EXCEPT ![g] = "forgotten"]
    /\ seen' = 0
    /\ UNCHANGED <<T, writes, ty, data, loc, held, moved, via, cell, calls, out>>

\* A faulty GuardDropCalls: the destructor looks at a flag and calls the
\* finalizer only the first time it runs.
GuardDropCallsFlagged(g) ==
    IF Len(SelectSeq(calls, LAMBDA c : c.g = g)) = 0
    THEN Finalize(ty[held[g]], held[g], data[held[g]], g)
    ELSE <<>>

\* A faulty GuardDropCalls: the slot is a plain T, so the drop glue of T
\* follows the finalizer.
GuardDropCallsWithGlue(g) ==
    Finalize(ty[held[g]], held[g], data[held[g]], g)
    \o DropGlue(ty[held[g]], held[g], data[held[g]], g)

\* A faulty GuardDropCalls: the destructor calls the finalizer twice.
GuardDropCallsTwice(g) ==
    Finalize(ty[held[g]], held[g], data[held[g]], g)
    \o Finalize(ty[held[g]], held[g], data[held[g]], g)

\* A faulty GuardDropCalls: the destructor does not replace the drop, it
\* runs the drop glue of T.
GuardDropCallsNormal(g) ==
    DropGlue(ty[held[g]], held[g], data[held[g]], g)

\* A faulty GuardDropCalls: the finalizer is followed by the drop glue of
\* the fields, as Drop::drop is.
GuardDropCallsLikeDrop(g) ==
    Finalize(ty[held[g]], held[g], data[held[g]], g)
    \o Concat([i \in 1..Len(Fields(ty[held[g]])) |->
                 DropGlue(Fields(ty[held[g]])[i], held[g], 0, g)])

\* What the guard's destructor runs on its slot: the slot is a ManuallyDrop,
\* so no drop glue follows the finalizer.
GuardDropCalls(g) ==
    Finalize(ty[held[g]], held[g], data[held[g]], g)

\* impl Drop for ReplaceDrop: the guard goes out of scope or is passed to
\* drop.
DropGuard(g) ==
    /\ Idle
    /\ galive[g] = "live"
    /\ Run(GuardDropCalls(g))
    /\ galive' = [galive EXCEPT ![g] = "dropped"]
    /\ loc' = [loc EXCEPT ![held[g]] = "finalized"]
    /\ seen' = 0
    /\ UNCHANGED <<T, writes, ty, data, held, moved, via>>

\* A faulty Target: the reference is to another value than the one in the
\* slot.
TargetOther(g) == CHOOSE w \in ValIds : w # held[g]

\* The value a reference obtained from guard g points to: &self.0.
Target(g) == held[g]

\* What a read through a reference to value v gives: MyData's data; for a
\* MyType, the cell its field borrows.
Observe(v) == IF ty[v] = "MyType" THEN cell ELSE data[v]

\* Deref::deref, and a read through the reference.
Deref(g) ==
    /\ Idle
    /\ galive[g] = "live"
    /\ seen' = Observe(Target(g))
    /\ UNCHANGED <<T, writes, ty, data, loc, galive, held, moved, via,
                   cell, calls, out>>

\* What a write to the fields of the value v of type t runs: the drop glue
\* of the value each field held, in place (g.0 = Inner drops the old Inner
\* where it is, in the field of v, before the new one is written), under no
\* guard's destructor.
FieldWriteCalls(t, v) ==
    Concat([i \in 1..Len(Fields(t)) |-> DropGlue(Fields(t)[i], v, 0, 0)])

\* DerefMut::deref_mut, and a write through the reference to the fields of
\* the value: x to the data of a MyData, x to the cell a MyType borrows
\* (*g.0 = x), a new Inner to the field of an Outer (g.0 = Inner), which
\* drops the old one.  () and Inner have no field.
DerefMut(g, x) ==
    /\ Idle
    /\ galive[g] = "live"
    /\ Fields(ty[Target(g)]) # <<>> => Room
    /\ data' = IF HasData(ty[Target(g)])
               THEN [data EXCEPT ![Target(g)] = x] ELSE data
    /\ calls' = calls \o FieldWriteCalls(ty[Target(g)], Target(g))
    /\ out' = out \o Printed(FieldWriteCalls(ty[Target(g)], Target(g)))
    /\ cell' = IF ty[Target(g)] = "MyType" THEN x ELSE cell
    /\ writes' = IF Fields(ty[Target(g)]) # <<>>
                 THEN [writes EXCEPT ![Target(g)] = @ + 1] ELSE writes
    /\ seen' = 0
    /\ UNCHANGED <<T, ty, loc, galive, held, moved, via>>

\* What an assignment over the value v runs: the drop glue of v, as for any
\* place of type T.
AssignCalls(v) == DropGlue(ty[v], v, data[v], 0)

\* *g = w: the bare value w is assigned through deref_mut.  The value in
\* the slot gets its drop glue, under a guard that stays armed, and w takes
\* its place.
DerefMutAssign(g, w) ==
    /\ Idle
    /\ galive[g] = "live"
    /\ loc[w] = "bare"
    /\ Run(AssignCalls(Target(g)))
    /\ loc' = [loc EXCEPT ![Target(g)] = "dropped", ![w] = "guard"]
    /\ held' = [held EXCEPT ![g] = w]
    /\ seen' = 0
    /\ UNCHANGED <<T, writes, ty, data, galive, moved, via>>

\* std::mem::replace(&mut *g, w), or std::mem::swap with a local: the bare
\* value w goes into the slot and the value that was there comes out bare,
\* with no cleanup routine run.
DerefMutReplace(g, w) ==
    /\ Idle
    /\ galive[g] = "live"
    /\ loc[w] = "bare"
    /\ loc' = [loc EXCEPT ![Target(g)] = "bare", ![w] = "guard"]
    /\ held' = [held EXCEPT ![g] = w]
    /\ seen' = 0
    /\ UNCHANGED <<T, writes, ty, data, galive, moved, via, cell, calls, out>>

\* std::mem::swap(&mut *g, &mut *h): two guards exchange their values.
DerefMutSwap(g, h) ==
    /\ Idle
    /\ g # h
    /\ galive[g] = "live"
    /\ galive[h] = "live"
    /\ held' = [held EXCEPT ![g] = held[h], ![h] = held[g]]
    /\ seen' = 0
    /\ UNCHANGED <<T, writes, ty, data, loc, galive, moved, via,
                   cell, calls, out>>

\* A faulty ClonedVal: the clone is a bitwise copy of the slot, the same
\* value in two guards.
ClonedValShared(g) == held[g]

\* The value the clone of guard g holds: ManuallyDrop<T>::clone clones the
\* T, which is a new value.
ClonedVal(g) == NextVal

\* #[derive(Clone)]: a new guard around a clone of the held value.
Clone(g) ==
    /\ Idle
    /\ galive[g] = "live"
    /\ IsClone(ty[held[g]])
    /\ Room
    /\ NextGuard \in GuardIds
    /\ ty' = [ty EXCEPT ![ClonedVal(g)] = ty[held[g]]]
    /\ data' = [data EXCEPT ![ClonedVal(g)] = data[held[g]]]
    /\ loc' = [loc EXCEPT ![ClonedVal(g)] = "guard"]
    /\ galive' = [galive EXCEPT ![NextGuard] = "live"]
    /\ held' = [held EXCEPT ![NextGuard] = ClonedVal(g)]
    /\ via' = [via EXCEPT ![NextGuard] = "clone"]
    /\ seen' = 0
    /\ UNCHANGED <<T, writes, moved, cell, calls, out>>

\* A faulty ReplaceDropCalls: replace_drop is std drop.
ReplaceDropCallsStd(v, g) == DropGlue(ty[v], v, data[v], g)

\* What replace_drop(val) runs: the destructor of the guard it builds
\* around val.
ReplaceDropCalls(v, g) == Finalize(ty[v], v, data[v], g)

\* replace_drop(val): let _ = ReplaceDrop::new(val); the guard is built and
\* dropped before the function returns.
ReplaceDropFn(v) ==
    /\ Idle
    /\ loc[v] = "bare"
    /\ NextGuard \in GuardIds
    /\ Run(ReplaceDropCalls(v, NextGuard))
    /\ galive' = [galive EXCEPT ![NextGuard] = "dropped"]
    /\ held' = [held EXCEPT ![NextGuard] = v]
    /\ via' = [via EXCEPT ![NextGuard] = "replace_drop"]
    /\ loc' = [loc EXCEPT ![v] = "finalized"]
    /\ seen' = 0
    /\ UNCHANGED <<T, writes, ty, data, moved>>

\* A faulty StdDropCalls: destroying a bare value dispatches to the
\* substituted finalizer.
StdDropCallsFinalizer(v) == Finalize(ty[v], v, data[v], 0)

\* What destroying the bare value v runs.
StdDropCalls(v) == DropGlue(ty[v], v, data[v], 0)

\* drop(val), or val going out of scope: the value's drop glue.
StdDrop(v) ==
    /\ Idle
    /\ loc[v] = "bare"
    /\ Run(StdDropCalls(v))
    /\ loc' = [loc EXCEPT ![v] = "dropped"]
    /\ seen' = 0
    /\ UNCHANGED <<T, writes, ty, data, galive, held, moved, via>>

Next ==
    \/ \E t \in Types, d \in DataVals : Make(t, d)
    \/ \E v \in ValIds : ManuallyDropNew(v)
    \/ \E v \in ValIds : New(v)
    \/ \E v \in ValIds : NewFromManuallyDrop(v)
    \/ \E g \in GuardIds : IntoInnerTake(g)
    \/ \E g \in GuardIds : IntoInnerForget(g)
    \/ \E g \in GuardIds : DropGuard(g)
    \/ \E g \in GuardIds : Deref(g)
    \/ \E g \in GuardIds, x \in DataVals : DerefMut(g, x)
    \/ \E g \in GuardIds, w \in ValIds : DerefMutAssign(g, w)
    \/ \E g \in GuardIds, w \in ValIds : DerefMutReplace(g, w)
    \/ \E g, h \in GuardIds : DerefMutSwap(g, h)
    \/ \E g \in GuardIds : Clone(g)
    \/ \E v \in ValIds : ReplaceDropFn(v)
    \/ \E v \in ValIds : StdDrop(v)

Spec == Init /\ [][Next]_vars

\* The programs shaped like the unit test (lib.rs 118-145): every value is a
\* MyType borrowing the cell t.  MyType is not Clone, and two MyType are
\* never owned together, so no guard is cloned, assigned to or swapped.
TestInit ==
    /\ T = "MyType"
    /\ Fresh(MaxTestVals, MaxGuards)

TestNext ==
    \/ Make("MyType", 0)
    \/ \E v \in ValIds : ManuallyDropNew(v)
    \/ \E v \in ValIds : New(v)
    \/ \E v \in ValIds : NewFromManuallyDrop(v)
    \/ \E g \in GuardIds : IntoInnerTake(g)
    \/ \E g \in GuardIds : IntoInnerForget(g)
    \/ \E g \in GuardIds : DropGuard(g)
    \/ \E g \in GuardIds : Deref(g)
    \/ \E g \in GuardIds, x \in DataVals : DerefMut(g, x)
    \/ \E v \in ValIds : ReplaceDropFn(v)
    \/ \E v \in ValIds : StdDrop(v)

TestSpec == TestInit /\ [][TestNext]_vars

\* How many runs of a finalizer of T the caller has forced with unsafe
\* code: the finalizer calls that are not the one call of a dropped guard.
ForcedRuns ==
    Len(SelectSeq(calls, LAMBDA c : c.rt = "fin" /\ c.ty = T))
    - Cardinality({h \in GuardIds : galive[h] = "dropped"})

\* The caller runs the destructor of guard g in place, with
\* unsafe { ptr::drop_in_place(&mut guard) }: <ReplaceDrop<T> as Drop>::drop
\* runs on the guard, which is not consumed and stays in scope.
DropInPlaceGuard(g) ==
    /\ Idle
    /\ galive[g] = "live"
    /\ ForcedRuns < MaxRuns
    /\ Run(GuardDropCalls(g))
    /\ seen' = 0
    /\ UNCHANGED <<T, writes, ty, data, loc, galive, held, moved, via>>

\* What a direct call of the trait method runs on value v: the finalizer,
\* under no guard's destructor.
FinalizeDirectCalls(v) == Finalize(ty[v], v, data[v], 0)

\* The caller calls the trait's method itself, with
\* unsafe { ReplaceDropImpl::drop(&mut value) }, on a value it owns or on
\* the value of a guard (&mut *g).  The value stays where it is.
FinalizeDirect(v) ==
    /\ Idle
    /\ loc[v] \in {"bare", "slot", "guard"}
    /\ Usable(v)
    /\ ForcedRuns < MaxRuns
    /\ Run(FinalizeDirectCalls(v))
    /\ seen' = 0
    /\ UNCHANGED <<T, writes, ty, data, loc, galive, held, moved, via>>

\* The guard's operations with a caller that may run a destructor again or
\* call a finalizer itself, on values made as the doc examples make them.
UnsafeNext ==
    \/ \E t \in Types : Make(t, DocData)
    \/ \E v \in ValIds : New(v)
    \/ \E g \in GuardIds : IntoInnerTake(g)
    \/ \E g \in GuardIds : IntoInnerForget(g)
    \/ \E g \in GuardIds : DropGuard(g)
    \/ \E g \in GuardIds : DropInPlaceGuard(g)
    \/ \E v \in ValIds : FinalizeDirect(v)

UnsafeSpec == Init /\ [][UnsafeNext]_vars

TypeOK ==
    /\ T \in Types
    /\ ty \in [ValIds -> {T, "none"}]
    /\ data \in [ValIds -> DataVals]
    /\ loc \in [ValIds -> {"unborn", "bare", "slot", "guard", "dropped", "finalized"}]
    /\ galive \in [GuardIds -> {"unborn", "live", "dropped", "forgotten"}]
    /\ held \in [GuardIds -> ValIds \cup {0}]
    /\ moved \in [GuardIds -> BOOLEAN]
    /\ via \in [GuardIds -> {"none", "new", "new_from_manually_drop", "clone", "replace_drop"}]
    /\ cell \in Nat
    /\ seen \in Nat
    /\ writes \in [ValIds -> Nat]
    /\ Cardinality(Taking) <= 1

\* ------------------------------------------------------ reading the calls
\* The calls made under the destructor of guard g, and the calls on value v.
CallsUnder(g) == SelectSeq(calls, LAMBDA c : c.g = g)
CallsOn(v) == SelectSeq(calls, LAMBDA c : c.v = v)

\* How many calls of routine rt of type t are in cs.
Count(cs, t, rt) == Len(SelectSeq(cs, LAMBDA c : c.ty = t /\ c.rt = rt))

\* How often ReplaceDropImpl::drop of its type, and Drop::drop of its type,
\* ran on value v itself.
FinCount(v) == Count(CallsOn(v), ty[v], "fin")
DropCount(v) == Count(CallsOn(v), ty[v], "drop")

\* How often the destructor of guard g called the finalizer of its value.
FinsUnder(g) == Count(CallsUnder(g), ty[held[g]], "fin")

\* The calls the caller's writes to the field of value v ran on v: one run
\* of the old field value's drop glue for each write.
FieldWriteLog(v) ==
    Concat([i \in 1..writes[v] |-> FieldWriteCalls(ty[v], v)])

\* The texts of printed lines.
Texts(ls) == [i \in 1..Len(ls) |-> ls[i].text]

\* ---------------------------------------------------------------- C1
\* C1 as stated: a guard built with ReplaceDrop::new around V and dropped
\* has invoked ReplaceDropImpl::drop on V exactly once and Drop::drop of T
\* on V never.
C1_Original ==
    \A g \in GuardIds :
        (via[g] = "new" /\ galive[g] = "dropped")
        => FinCount(held[g]) = 1 /\ DropCount(held[g]) = 0

\* C1, amended: a guard built with ReplaceDrop::new around V and dropped has
\* invoked ReplaceDropImpl::drop on V exactly once, and the calls on V are
\* the destructor runs of the field values the caller overwrote in V while
\* a guard held it, one for each write, followed by exactly the calls of
\* that one finalizer run: the guard's destructor adds no call of
\* Drop::drop of T, which runs only as often as T's own finalizer invokes
\* it (once for Outer, never for the other types).
C1_GuardDropRunsFinalizerOnce ==
    \A g \in GuardIds :
        (via[g] = "new" /\ galive[g] = "dropped")
        => /\ FinCount(held[g]) = 1
           /\ CallsOn(held[g])
                = FieldWriteLog(held[g])
                  \o Finalize(ty[held[g]], held[g], data[held[g]], g)
           /\ DropCount(held[g]) = (IF ty[held[g]] = "Outer" THEN 1 ELSE 0)

\* A MyType was wrapped with new and the guard dropped: the finalizer wrote
\* the cell and the normal destructor, which MyType has, did not run.
C1_Witness ==
    \E g \in GuardIds :
        /\ via[g] = "new" /\ galive[g] = "dropped"
        /\ ty[held[g]] = "MyType"
        /\ calls = <<Call("fin", "MyType", held[g], 0, g)>>
        /\ cell = CellFin

\* ---------------------------------------------------------------- C2
\* C2: once into_inner took V out of guard G, no cleanup call is ever made
\* under G; G ends forgotten; V is back with the caller, owned by G no more;
\* while the caller keeps V bare no cleanup routine of V has run (the only
\* calls on V are the destructor runs of the field values the caller
\* overwrote through a guard), and once the bare V is destroyed exactly its
\* drop glue has run on it after those, once, and the finalizer never.
C2_ExtractCancels ==
    \A g \in GuardIds :
        moved[g] =>
            /\ CallsUnder(g) = <<>>
            /\ g \notin Taking => galive[g] = "forgotten"
            /\ loc[held[g]] \in {"guard", "finalized"}
               => \E h \in GuardIds : h # g /\ held[h] = held[g] /\ ~moved[h]
            /\ loc[held[g]] \in {"bare", "slot"}
               => CallsOn(held[g]) = FieldWriteLog(held[g])
            /\ loc[held[g]] = "dropped"
               => /\ CallsOn(held[g])
                       = FieldWriteLog(held[g])
                         \o DropGlue(ty[held[g]], held[g], data[held[g]], 0)
                  /\ FinCount(held[g]) = 0
                  /\ DropCount(held[g]) = (IF HasDrop(ty[held[g]]) THEN 1 ELSE 0)

\* The field of an Outer was written through its guard, the Outer taken out
\* with into_inner and then destroyed as a bare value: the old field value
\* was dropped at the write, the Outer and its field at the end.
C2_Witness ==
    \E g \in GuardIds :
        /\ galive[g] = "forgotten"
        /\ ty[held[g]] = "Outer"
        /\ loc[held[g]] = "dropped"
        /\ writes[held[g]] = 1
        /\ Texts(out) = <<"Inner!", "Outer!", "Inner!">>

\* ---------------------------------------------------------------- C3
\* The three lifecycle states of a guard, read from the code's state: the
\* destructor is armed and has not called the finalizer; the destructor ran
\* and called the finalizer once; the value was moved out and the guard
\* forgotten without a finalizer call.
Holding(g) == galive[g] = "live" /\ FinsUnder(g) = 0
Discharged(g) == galive[g] = "dropped" /\ FinsUnder(g) = 1 /\ ~moved[g]
Extracted(g) == galive[g] = "forgotten" /\ FinsUnder(g) = 0 /\ moved[g]

StatesOf(g) ==
    {s \in {"Holding", "Discharged", "Extracted"} :
        \/ s = "Holding" /\ Holding(g)
        \/ s = "Discharged" /\ Discharged(g)
        \/ s = "Extracted" /\ Extracted(g)}

C3_Step ==
    \A g \in GuardIds :
        /\ galive[g] = "unborn"
           => \/ galive'[g] = "unborn"
              \/ Holding(g)'
              \/ Discharged(g)' /\ via'[g] = "replace_drop"
        /\ (galive[g] = "unborn"
            /\ via'[g] \in {"new", "new_from_manually_drop", "clone"})
           => Holding(g)'
        /\ Holding(g)
           => \/ Holding(g)'
              \/ Discharged(g)' /\ DropGuard(g)
              \/ Extracted(g)' /\ IntoInnerForget(g)
        /\ Discharged(g) => Discharged(g)' /\ CallsUnder(g)' = CallsUnder(g)
        /\ Extracted(g) => Extracted(g)' /\ CallsUnder(g)' = CallsUnder(g)

\* C3: every guard that was built is in exactly one of Holding, Discharged,
\* Extracted, and has called the finalizer at most once; a guard built by a
\* constructor starts in Holding; from Holding a guard goes to Discharged
\* (with finalizer calls) or to Extracted (with none) or stays; Discharged
\* and Extracted are never left; a destroyed guard that was not extracted
\* from has called the finalizer once.
C3_Lifecycle ==
    /\ [](\A g \in GuardIds :
            /\ galive[g] # "unborn" => Cardinality(StatesOf(g)) = 1
            /\ galive[g] = "unborn" => StatesOf(g) = {} /\ CallsUnder(g) = <<>>
            /\ FinsUnder(g) <= 1
            /\ (galive[g] = "dropped" /\ ~moved[g]) => FinsUnder(g) = 1)
    /\ [][C3_Step]_vars

\* One guard was dropped and another was extracted from.
C3_Witness ==
    \E g, h \in GuardIds :
        /\ Discharged(g) /\ via[g] = "new_from_manually_drop"
        /\ Extracted(h) /\ via[h] = "new"

\* ---------------------------------------------------------------- C4
\* C4: every call of a substituted finalizer happened under the destructor
\* of a guard (one built by a constructor, by clone or by replace_drop) that
\* has run; a value destroyed bare has had exactly its drop glue run on it
\* (after the destructor runs of the field values the caller overwrote in
\* it) and its finalizer never.
C4_StdDropNeverFinalizes ==
    /\ \A i \in 1..Len(calls) :
          calls[i].rt = "fin"
          => /\ calls[i].g \in GuardIds
             /\ galive[calls[i].g] = "dropped"
             /\ held[calls[i].g] = calls[i].v
    /\ \A v \in ValIds :
          loc[v] = "dropped"
          => /\ FinCount(v) = 0
             /\ CallsOn(v) = FieldWriteLog(v) \o DropGlue(ty[v], v, data[v], 0)
             /\ \A i \in 1..Len(calls) :
                   calls[i].v = v => calls[i].rt = "drop" /\ calls[i].g = 0

\* A bare MyType was destroyed: its normal destructor wrote the cell.
C4_Witness ==
    \E v \in ValIds :
        /\ loc[v] = "dropped" /\ ty[v] = "MyType"
        /\ calls = <<Call("drop", "MyType", v, 0, 0)>>
        /\ cell = CellDrop

\* ---------------------------------------------------------------- C5
C5_Step ==
    /\ calls' # calls
       => /\ Len(calls') = Len(calls) + 1
          /\ cell' = (IF calls'[Len(calls')].rt = "fin" THEN CellFin ELSE CellDrop)
    /\ \A g \in GuardIds : DropGuard(g) => cell' = CellFin
    /\ \A v \in ValIds :
          /\ ReplaceDropFn(v) => cell' = CellFin
          /\ StdDrop(v) => cell' = CellDrop
    /\ (calls' = calls /\ cell' # cell)
       => \E g \in GuardIds, x \in DataVals : DerefMut(g, x) /\ cell' = x

\* C5 (the test of lib.rs, under TestSpec): the cell is 0 at first; every
\* step that destroys a MyType runs one cleanup routine and leaves in the
\* cell the write of that routine: 5 after a guard drop or replace_drop, 1
\* after a normal drop; no other step changes the cell, but a write of the
\* caller through a guard; each destroyed MyType had exactly one routine
\* run on it, the one its destruction selects.
C5_CellIsLastCleanupWrite ==
    /\ [](/\ (calls = <<>> /\ \A g \in GuardIds : galive[g] = "unborn")
             => cell = CellInit
          /\ \A v \in ValIds :
                /\ loc[v] = "finalized"
                   => \E g \in GuardIds :
                         /\ held[g] = v /\ galive[g] = "dropped"
                         /\ CallsOn(v) = <<Call("fin", "MyType", v, 0, g)>>
                /\ loc[v] = "dropped"
                   => CallsOn(v) = <<Call("drop", "MyType", v, 0, 0)>>
                /\ loc[v] \in {"unborn", "bare", "slot", "guard"}
                   => CallsOn(v) = <<>>)
    /\ [][C5_Step]_vars

\* The test's run: drop(ReplaceDrop::new(MyType(&mut t))), then
\* drop(MyType(&mut t)), then replace_drop(MyType(&mut t)); the cell is 5.
C5_Witness ==
    /\ calls = << Call("fin", "MyType", 1, 0, 1),
                  Call("drop", "MyType", 2, 0, 0),
                  Call("fin", "MyType", 3, 0, 2) >>
    /\ via[1] = "new" /\ via[2] = "replace_drop"
    /\ cell = CellFin

\* ---------------------------------------------------------------- C6
\* What examples/calling_drop.rs prints.
ExampleOutput == <<"Outer 2!", "Inner!", "Inner 2!", "Outer!", "Inner!">>

\* C6: dropping a guard around an Outer(Inner) prints Outer 2!, Inner!,
\* Inner 2!, Outer!, Inner!, in this order, and nothing else; when it is
\* the only cleanup of the run, that is the whole output.
C6_NestedOrder ==
    \A g \in GuardIds :
        (galive[g] = "dropped" /\ ty[held[g]] = "Outer")
        => /\ Texts(Printed(CallsUnder(g))) = ExampleOutput
           /\ Len(CallsUnder(g)) = Len(ExampleOutput)
           /\ Len(calls) = Len(CallsUnder(g)) => Texts(out) = ExampleOutput

\* main of the example has run: one Outer, wrapped with new and dropped.
C6_Witness ==
    /\ T = "Outer"
    /\ via[1] = "new" /\ galive[1] = "dropped" /\ held[1] = 1
    /\ loc[2] = "unborn"
    /\ Texts(out) = ExampleOutput

\* ---------------------------------------------------------------- C7
\* C7 as stated: after replace_drop(value) the finalizer has run exactly
\* once on value and the normal destructor of value has not run.
C7_Original ==
    \A g \in GuardIds :
        via[g] = "replace_drop"
        => /\ galive[g] = "dropped"
           /\ FinCount(held[g]) = 1
           /\ DropCount(held[g]) = 0

\* C7, amended: replace_drop(value) leaves what building a guard around
\* value and dropping it leaves: when it returns its guard has been
\* destroyed, value is finalized, the finalizer ran exactly once on value,
\* and the calls on value are, after the destructor runs of the field values
\* the caller overwrote in it, exactly those the destructor of a guard
\* around it makes, so that the normal destructor of value ran only as
\* often as the finalizer itself invokes it.
C7_ReplaceDropIsNewThenDrop ==
    \A g \in GuardIds :
        via[g] = "replace_drop"
        => /\ galive[g] = "dropped" /\ ~moved[g]
           /\ loc[held[g]] = "finalized"
           /\ FinCount(held[g]) = 1
           /\ CallsOn(held[g]) = FieldWriteLog(held[g]) \o GuardDropCalls(g)
           /\ CallsUnder(g) = GuardDropCalls(g)
           /\ DropCount(held[g]) = (IF ty[held[g]] = "Outer" THEN 1 ELSE 0)

\* The doc example of replace_drop: replace_drop ran on a MyData whose data
\* is 3.
C7_Witness ==
    \E g \in GuardIds :
        /\ via[g] = "replace_drop"
        /\ ty[held[g]] = "MyData2"
        /\ out = <<[text |-> "Called replace_drop with", arg |-> DocData]>>

\* ---------------------------------------------------------------- C8
C8_Step ==
    \A g \in GuardIds :
        /\ (galive[g] = "live" /\ held' = held /\ calls' = calls)
           => (Deref(g)
               => /\ seen' = Observe(held[g])
                  /\ UNCHANGED <<ty, data, loc, galive, held, moved, via, cell, calls, out>>)
        /\ (galive[g] = "live" /\ held' = held /\ loc' = loc)
           => \A x \in DataVals :
                 DerefMut(g, x)
                 => /\ HasData(ty[held[g]]) => data'[held[g]] = x
                    /\ ty[held[g]] = "MyType" => cell' = x
                    /\ ty[held[g]] # "MyType" => cell' = cell
                    /\ \A w \in ValIds \ {held[g]} : data'[w] = data[w]
                    /\ calls' = calls \o FieldWriteCalls(ty[held[g]], held[g])
                    /\ CallsOn(held[g])'
                         = CallsOn(held[g])
                           \o (IF ty[held[g]] = "Outer"
                               THEN <<Call("drop", "Inner", held[g], 0, 0)>>
                               ELSE <<>>)
                    /\ out' = out \o (IF ty[held[g]] = "Outer"
                                      THEN <<[text |-> "Inner!", arg |-> 0]>>
                                      ELSE <<>>)
                    /\ \A w \in ValIds \ {held[g]} :
                          CallsOn(w)' = CallsOn(w) /\ writes'[w] = writes[w]
                    /\ \A h \in GuardIds :
                          /\ StatesOf(h)' = StatesOf(h)
                          /\ CallsUnder(h)' = CallsUnder(h)
                    /\ UNCHANGED <<ty, loc, galive, held, moved, via>>
        /\ (galive[g] = "live" /\ held'[g] # held[g])
           => /\ \A w \in ValIds :
                    /\ DerefMutAssign(g, w)
                       => /\ held'[g] = w /\ loc'[w] = "guard"
                          /\ loc'[held[g]] = "dropped"
                          /\ calls' = calls \o StdDropCalls(held[g])
                          /\ \A h \in GuardIds \ {g} : held'[h] = held[h]
                    /\ DerefMutReplace(g, w)
                       => /\ held'[g] = w /\ loc'[w] = "guard"
                          /\ loc'[held[g]] = "bare"
                          /\ calls' = calls
                          /\ \A h \in GuardIds \ {g} : held'[h] = held[h]
              /\ \A h \in GuardIds :
                    DerefMutSwap(g, h)
                    => /\ held'[g] = held[h] /\ held'[h] = held[g]
                       /\ UNCHANGED <<loc, cell, calls, out>>
              /\ UNCHANGED <<ty, data, galive, moved, via>>
              /\ \A h \in GuardIds :
                    /\ StatesOf(h)' = StatesOf(h)
                    /\ CallsUnder(h)' = CallsUnder(h)
        /\ galive'[g] # galive[g]
           => (DropGuard(g)
               => calls'[Len(calls) + 1] =
                     Call("fin", ty[held[g]], held[g], data[held[g]], g))
        /\ moved'[g] # moved[g]
           => (IntoInnerTake(g)
               => loc'[held[g]] = "bare" /\ data'[held[g]] = data[held[g]])

\* Whatever step changes the data or the field of a constructed value, or
\* the cell without running a cleanup routine of a MyType, is a write
\* through a guard that holds the value and is armed, and the guards and
\* the ownership of the values are after it as before.
C8_Frame ==
    /\ \A v \in ValIds :
          (loc[v] # "unborn" /\ (data'[v] # data[v] \/ writes'[v] # writes[v]))
          => /\ \E g \in GuardIds :
                   galive[g] = "live" /\ ~moved[g] /\ held[g] = v
             /\ loc[v] = "guard"
             /\ writes'[v] # writes[v]
                => /\ writes'[v] = writes[v] + 1
                   /\ CallsOn(v)' = CallsOn(v) \o <<Call("drop", "Inner", v, 0, 0)>>
                   /\ Len(calls') = Len(calls) + 1
             /\ writes'[v] = writes[v] => calls' = calls
             /\ UNCHANGED <<ty, loc, galive, held, moved, via>>
             /\ \A h \in GuardIds : CallsUnder(h)' = CallsUnder(h)
    /\ (cell' # cell /\ calls' = calls)
       => /\ \E g \in GuardIds :
                /\ galive[g] = "live" /\ ~moved[g]
                /\ ty[held[g]] = "MyType" /\ loc[held[g]] = "guard"
          /\ UNCHANGED <<ty, data, loc, galive, held, moved, via, out>>

\* C8: a read through deref gives the current state of the held value and
\* changes nothing else; a write through deref_mut changes the held value
\* and nothing else: a write to a field changes the data of the held value
\* (for a MyType, the cell it borrows; for an Outer, the field, whose old
\* value gets its drop glue, in place, as the one call the write adds to
\* the calls on the held value); an assignment of a whole value puts
\* that value in the slot and runs the drop glue of the value that was
\* there; mem::replace and mem::swap exchange values and run nothing.  None
\* of them changes a guard's lifecycle state or makes a call under a guard.
\* The finalizer on drop sees, and into_inner returns, the value then held,
\* with the data last written.  And no step but such a write through
\* an armed guard changes the data or the field of a value a guard holds.
C8_Transparency == [][C8_Step /\ C8_Frame]_vars

\* The cell a MyType in a live guard borrows was written to DocData
\* through deref_mut and read back through deref, with no cleanup run.
C8_Witness ==
    \E g \in GuardIds :
        /\ galive[g] = "live" /\ ~moved[g]
        /\ ty[held[g]] = "MyType"
        /\ cell = DocData
        /\ seen = DocData
        /\ calls = <<>>

\* ---------------------------------------------------------------- C9
\* How many times the normal destructor of a field (an Inner) ran in cs.
FieldDrops(cs) == Count(cs, "Inner", "drop")

\* C9: when a guard's destructor has run, the normal destructor of the
\* field of the wrapped value ran exactly as often as the value's finalizer
\* triggers it, and the destructor added none: for an Outer twice
\* (drop_in_place of the field, drop_in_place of self), not the three times
\* it would be if the field were dropped after the finalizer; for the types
\* whose finalizer triggers none, never.
C9_FieldsNotAutomatic ==
    \A g \in GuardIds :
        galive[g] = "dropped"
        => /\ FieldDrops(CallsUnder(g))
                = FieldDrops(Finalize(ty[held[g]], held[g], data[held[g]], g))
           /\ ty[held[g]] = "Outer" => FieldDrops(CallsUnder(g)) = 2
           /\ ty[held[g]] # "Outer" => FieldDrops(CallsUnder(g)) = 0
           /\ Len(CallsUnder(g))
                = Len(Finalize(ty[held[g]], held[g], data[held[g]], g))

\* A guard around an Outer was dropped: the field's destructor ran the two
\* times the finalizer of Outer runs it, and no call followed the
\* finalizer's own.
C9_Witness ==
    \E g \in GuardIds :
        /\ galive[g] = "dropped"
        /\ ty[held[g]] = "Outer"
        /\ FieldDrops(CallsUnder(g)) = 2
        /\ Len(CallsUnder(g)) = Len(Finalize("Outer", held[g], 0, g))

\* ---------------------------------------------------------------- C10
C10_Step ==
    \A g \in GuardIds :
        /\ Clone(g)
           => \A n \in GuardIds :
                 n = NextGuard
                 => /\ loc[held'[n]] = "unborn"
                    /\ Holding(n)' /\ via'[n] = "clone"
                    /\ ty'[held'[n]] = ty[held[g]]
                    /\ data'[held'[n]] = data[held[g]]
                    /\ galive'[g] = galive[g] /\ held'[g] = held[g]
                    /\ loc'[held[g]] = loc[held[g]]
                    /\ data'[held[g]] = data[held[g]]
        /\ (DropGuard(g) \/ IntoInnerTake(g) \/ IntoInnerForget(g))
           => \A h \in GuardIds \ {g} :
                 /\ galive'[h] = galive[h] /\ moved'[h] = moved[h]
                 /\ held'[h] = held[h]
                 /\ CallsUnder(h)' = CallsUnder(h)
                 /\ (galive[h] = "live"
                     => /\ loc'[held[h]] = loc[held[h]]
                        /\ data'[held[h]] = data[held[h]])

\* C10: the clone of a Holding guard (T: Clone, which of the implementers
\* only () is) is a Holding guard around a value that did not exist before,
\* with the data of the original, and the original is as it was; two armed
\* guards never hold the same value; the destructor of each guard calls the
\* finalizer once, on its own value, and no value is finalized twice;
\* dropping or extracting from one guard changes neither the lifecycle, the
\* value nor the calls of another.
C10_CloneIndependent ==
    /\ [](/\ \A g, h \in GuardIds :
               (g # h /\ galive[g] = "live" /\ galive[h] = "live"
                /\ ~moved[g] /\ ~moved[h])
               => held[g] # held[h]
          /\ \A g \in GuardIds :
               galive[g] = "dropped"
               => /\ FinsUnder(g) = 1
                  /\ \A i \in 1..Len(calls) :
                        calls[i].g = g => calls[i].v = held[g]
          /\ \A v \in ValIds : loc[v] # "unborn" => FinCount(v) <= 1)
    /\ [][C10_Step]_vars

\* A guard around a () was cloned and the original dropped: the finalizer
\* ran once, on the original's value, and the clone still holds its own.
C10_Witness ==
    \E g, h \in GuardIds :
        /\ via[h] = "clone" /\ galive[h] = "live"
        /\ galive[g] = "dropped"
        /\ held[h] # held[g]
        /\ loc[held[h]] = "guard"
        /\ calls = <<Call("fin", "Unit", held[g], 0, g)>>

\* ---------------------------------------------------------------- C11
\* What the calls cs are, whatever value and guard they are made on.
Events(cs) == [i \in 1..Len(cs) |-> [rt |-> cs[i].rt, ty |-> cs[i].ty, d |-> cs[i].d]]

\* C11: a guard built by new_from_manually_drop around a value in a
\* ManuallyDrop is a guard like one built by new: it starts Holding, owning
\* the value; dropped, it has run exactly its finalizer on the value (on
\* which nothing else ran but the caller's field writes);
\* extracted from, it has run nothing; and whenever a guard built by new
\* and one built by new_from_manually_drop have gone the same way (both
\* held, both dropped, both extracted from) with the same data in their
\* values, the calls made under them are the same and a read through them
\* gives the same.
C11_FromManuallyDropIsNew ==
    /\ \A h \in GuardIds :
          via[h] = "new_from_manually_drop"
          => /\ galive[h] # "unborn"
             /\ (galive[h] = "live" /\ ~moved[h])
                => /\ Holding(h) /\ loc[held[h]] = "guard"
                   /\ CallsUnder(h) = <<>>
                   /\ CallsOn(held[h]) = FieldWriteLog(held[h])
             /\ galive[h] = "dropped"
                => /\ loc[held[h]] = "finalized"
                   /\ CallsUnder(h) = GuardDropCalls(h)
                   /\ CallsOn(held[h]) = FieldWriteLog(held[h]) \o GuardDropCalls(h)
             /\ galive[h] = "forgotten" => moved[h] /\ CallsUnder(h) = <<>>
    /\ \A g, h \in GuardIds :
          (/\ via[g] = "new" /\ via[h] = "new_from_manually_drop"
           /\ galive[g] = galive[h] /\ moved[g] = moved[h]
           /\ data[held[g]] = data[held[h]])
          => /\ Events(CallsUnder(g)) = Events(CallsUnder(h))
             /\ (galive[g] = "live" /\ ~moved[g])
                => /\ loc[held[g]] = loc[held[h]]
                   /\ Observe(Target(g)) = Observe(Target(h))

\* Two MyData with the same written data, one wrapped by new and one by
\* new_from_manually_drop, were dropped: the same line was printed twice.
C11_Witness ==
    \E g, h \in GuardIds :
        /\ via[g] = "new" /\ via[h] = "new_from_manually_drop"
        /\ galive[g] = "dropped" /\ galive[h] = "dropped"
        /\ ty[held[g]] = "MyData"
        /\ Len(out) = 2
        /\ \A i \in 1..2 : out[i] = [text |-> "Called drop with", arg |-> DocData]

\* ---------------------------------------------------------------- C12
\* C12: the finalizer of () does nothing.  With T = (), whatever guards
\* were dropped and whatever values were handed to replace_drop, nothing
\* was printed, the cell and every value's data are as constructed, and
\* each discharge completed: the guard is dropped, its value finalized, by
\* exactly one call, of the finalizer of ().
C12_UnitIsNoOp ==
    T = "Unit"
    => /\ out = <<>>
       /\ cell = CellInit
       /\ seen = 0
       /\ \A v \in ValIds : data[v] = 0
       /\ \A i \in 1..Len(calls) :
             /\ Printed(<<calls[i]>>) = <<>>
             /\ \A c \in {CellInit, CellDrop, CellFin} :
                   CellAfter(c, <<calls[i]>>) = c
       /\ \A g \in GuardIds :
             galive[g] = "dropped"
             => /\ loc[held[g]] = "finalized"
                /\ CallsOn(held[g]) = <<Call("fin", "Unit", held[g], 0, g)>>

\* One () was discharged by dropping its guard and one by replace_drop.
C12_Witness ==
    /\ T = "Unit"
    /\ Len(calls) = 2
    /\ \E g, h \in GuardIds :
          /\ via[g] = "new" /\ galive[g] = "dropped"
          /\ via[h] = "replace_drop" /\ galive[h] = "dropped"

\* ---------------------------------------------------------------- C13
\* C13 as stated: however often the destructor of a guard runs, the guard
\* discharges at most once.
C13_Original == \A g \in GuardIds : FinsUnder(g) <= 1

\* C13, amended: the destructor has no flag to look at.  Every run of the
\* destructor of a guard, the first and any the caller forces after it,
\* calls the finalizer of the held value once more, with exactly the calls
\* of one finalizer run; into_inner itself calls nothing, and once
\* into_inner has taken the value no call is ever made under the guard
\* again, because the guard is forgotten and its destructor does not run.
C13_Step ==
    \A g \in GuardIds :
        /\ (DropGuard(g) \/ DropInPlaceGuard(g))
           => /\ FinsUnder(g)' = FinsUnder(g) + 1
              /\ CallsUnder(g)' = CallsUnder(g)
                    \o Finalize(ty[held[g]], held[g], data[held[g]], g)
        /\ (IntoInnerTake(g) \/ IntoInnerForget(g)) => calls' = calls
        /\ moved[g] => CallsUnder(g)' = CallsUnder(g)
        /\ galive[g] \in {"dropped", "forgotten"} => galive'[g] = galive[g]

C13_EveryDestructorRunFinalizes == [][C13_Step]_vars

\* The destructor of one guard ran in place and then ran again when the
\* guard was dropped: its value was finalized twice.
C13_Witness ==
    \E g \in GuardIds :
        /\ galive[g] = "dropped"
        /\ FinsUnder(g) = 2
        /\ CallsUnder(g) = GuardDropCalls(g) \o GuardDropCalls(g)

\* ---------------------------------------------------------------- C14
\* C14: into_inner takes the value and then forgets the guard with nothing
\* in between.  At most one into_inner is between its two statements; in
\* that state the value is out of the slot, no cleanup routine has run on
\* it (but the destructors of the field values the caller overwrote in it)
\* or under the guard, and no destructor run, no drop of a value and no
\* replace_drop can happen: forgetting the guard is what happens next.  So
\* the calls on a value are the ones of the caller's field writes and then
\* the cleanup of the value, which never comes from both a guard and the
\* caller, or from two guards, and a value the caller took back is never
\* cleaned up under the guard it was taken from.
C14_ExtractionAtomic ==
    /\ Cardinality(Taking) <= 1
    /\ \A g \in Taking :
          /\ loc[held[g]] = "bare"
          /\ CallsOn(held[g]) = FieldWriteLog(held[g])
          /\ CallsUnder(g) = <<>>
          /\ ENABLED IntoInnerForget(g)
          /\ ~ENABLED (\E h \in GuardIds : DropGuard(h))
          /\ ~ENABLED (\E v \in ValIds : StdDrop(v))
          /\ ~ENABLED (\E v \in ValIds : ReplaceDropFn(v))
    /\ \A v \in ValIds :
          /\ Len(CallsOn(v)) >= Len(FieldWriteLog(v))
          /\ SubSeq(CallsOn(v), 1, Len(FieldWriteLog(v))) = FieldWriteLog(v)
          /\ \A i, j \in (Len(FieldWriteLog(v)) + 1)..Len(CallsOn(v)) :
                CallsOn(v)[i].g = CallsOn(v)[j].g
          /\ \A i \in (Len(FieldWriteLog(v)) + 1)..Len(CallsOn(v)) :
                \A g \in GuardIds :
                   moved[g] /\ held[g] = v => CallsOn(v)[i].g # g
    /\ \A g \in GuardIds :
          moved[g] => CallsUnder(g) = <<>>

\* A value was taken back with into_inner and then dropped by the caller:
\* its cleanup ran without a guard, and nothing ran under the guard it was
\* taken from.
C14_Witness ==
    \E g \in GuardIds :
        /\ galive[g] = "forgotten"
        /\ loc[held[g]] = "dropped"
        /\ HasDrop(T)
        /\ CallsOn(held[g]) = StdDropCalls(held[g])
        /\ CallsUnder(g) = <<>>

\* ---------------------------------------------------------------- C15
\* C15: the guard's destructor is the only operation of the wrapper that
\* calls the finalizer of the held value.  Every call of the finalizer of T
\* was made under a guard that holds the value it ran on and that has been
\* dropped (by the caller or inside replace_drop); a guard that is held or
\* was extracted from, whatever was read, written or cloned through it,
\* has no call under it; a dropped guard has exactly one finalizer call
\* under it; and no value was finalized twice.
C15_SingleDischargePoint ==
    /\ \A i \in 1..Len(calls) :
          (calls[i].rt = "fin" /\ calls[i].ty = T)
          => /\ calls[i].g \in GuardIds
             /\ galive[calls[i].g] = "dropped"
             /\ held[calls[i].g] = calls[i].v
             /\ loc[calls[i].v] = "finalized"
    /\ \A g \in GuardIds :
          /\ galive[g] \in {"unborn", "live", "forgotten"} => CallsUnder(g) = <<>>
          /\ galive[g] = "dropped" => FinsUnder(g) = 1
    /\ \A v \in ValIds : FinCount(v) <= 1

\* A value was wrapped, taken back with into_inner and handed to
\* replace_drop: it was finalized once, under the guard replace_drop built
\* and dropped, and nothing ran under the guard it was taken from.
C15_Witness ==
    \E g, h \in GuardIds :
        /\ galive[g] = "forgotten"
        /\ galive[h] = "dropped" /\ via[h] = "replace_drop"
        /\ held[g] = held[h]
        /\ FinCount(held[h]) = 1
        /\ CallsUnder(g) = <<>>

\* ---------------------------------------------------------------- C16
\* C16 as stated: a value that ended in a dropped guard had its finalizer
\* run once and Drop::drop of its type never; a value that ended bare and
\* was dropped had the Drop::drop of its type run once (if it has one) and
\* its finalizer never.
C16_Original ==
    \A v \in ValIds :
        /\ loc[v] = "finalized" => FinCount(v) = 1 /\ DropCount(v) = 0
        /\ loc[v] = "dropped"
           => FinCount(v) = 0 /\ DropCount(v) = (IF HasDrop(ty[v]) THEN 1 ELSE 0)

\* C16, amended: whatever wrap and extract steps a value went through, the
\* cleanup it gets is decided by its last owner alone and happens once.  A
\* value that ended in a dropped guard had exactly the calls of one run of
\* its finalizer, under that guard: the finalizer was called once, and
\* Drop::drop of its type ran only as often as the finalizer's own body
\* runs it (once for Outer, whose finalizer ends with drop_in_place(self)).
\* A value that ended bare and was dropped had exactly the calls of its
\* drop glue and no finalizer call.  Before its cleanup, and while it is
\* still owned, the only calls on a value are the destructor runs of the
\* field values the caller overwrote in it, one for each write.
\* Every earlier guard of the value was extracted from and has no call
\* under it.
C16_LastOwnerDecides ==
    \A v \in ValIds :
        /\ loc[v] = "finalized"
           => \E g \in GuardIds :
                 /\ held[g] = v /\ galive[g] = "dropped"
                 /\ CallsOn(v) = FieldWriteLog(v) \o Finalize(ty[v], v, data[v], g)
                 /\ CallsUnder(g) = Finalize(ty[v], v, data[v], g)
                 /\ FinCount(v) = 1
                 /\ DropCount(v) = Count(Finalize(ty[v], v, data[v], g), ty[v], "drop")
                 /\ \A h \in GuardIds \ {g} :
                       held[h] = v
                       => galive[h] = "forgotten" /\ CallsUnder(h) = <<>>
        /\ loc[v] = "dropped"
           => /\ CallsOn(v) = FieldWriteLog(v) \o DropGlue(ty[v], v, data[v], 0)
              /\ FinCount(v) = 0
              /\ DropCount(v) = (IF HasDrop(ty[v]) THEN 1 ELSE 0)
              /\ \A h \in GuardIds :
                    held[h] = v
                    => galive[h] = "forgotten" /\ CallsUnder(h) = <<>>
        /\ Owned(v) => CallsOn(v) = FieldWriteLog(v)
        /\ loc[v] = "unborn" => CallsOn(v) = <<>> /\ writes[v] = 0

\* An Outer was wrapped with new, taken back with into_inner, wrapped with
\* new again and that guard dropped: the lines of one finalizer run were
\* printed, Drop::drop of Outer among them.
C16_Witness ==
    \E g, h \in GuardIds :
        /\ via[g] = "new" /\ galive[g] = "forgotten"
        /\ via[h] = "new" /\ galive[h] = "dropped"
        /\ held[g] = held[h]
        /\ ty[held[h]] = "Outer"
        /\ Texts(out) = ExampleOutput
        /\ DropCount(held[h]) = 1
====
